---- MODULE Spec2Model ----
(***************************************************************************)
(* The comic-book issue component library (window.bmr).  The repository    *)
(* holds six versions of the library, each one an IIFE script block:       *)
(*   src/unnamed/part_000  blocks P1 (1-249), P2 (251-412), P3 (414-585),   *)
(*                         P4 (587-871)                                     *)
(*   src/script.js         blocks S1 (1-226), S2 (228-405)                  *)
(* A block declares a schema, registers a namespace under window.bmr,      *)
(* defines a constructor (Issue or ComicBookIssue) and exposes the factory *)
(* create.  The model has the page (which blocks ran, what window.bmr is), *)
(* the last call of the factory, and the component the caller holds.       *)
(***************************************************************************)
EXTENDS Naturals, Integers, Sequences, FiniteSets, TLC

VARIABLES
    file,     \* the source file whose script blocks the page runs
    first,    \* index of the first block the page runs
    pc,       \* index of the next block to run
    bmr,      \* the window.bmr property: [set, block, writable]
    defined,  \* blocks whose constructor and factory got defined
    call,     \* the last call of window.bmr.create: input and outcome
    held,     \* the component the caller holds: [props, snap] or NoComponent
    op        \* the last operation attempted on the held component

vars == <<file, first, pc, bmr, defined, call, held, op>>

----------------------------------------------------------------------------
(* Bounds of the model *)

\* a raw input differs from a base input in at most this many keys
MaxDeviations == 1

----------------------------------------------------------------------------
(* JavaScript values.  A string is a sequence of character tokens, so that *)
(* the transforms can be computed on it.  t is the kind of the value:      *)
(* "String" and "Number" are the wrapper objects made by new String() and  *)
(* new Number().                                                           *)

Undefined == [t |-> "undefined", s |-> <<>>, n |-> 0]
Null      == [t |-> "null", s |-> <<>>, n |-> 0]
Str(s)    == [t |-> "string", s |-> s, n |-> 0]
Num(n)    == [t |-> "number", s |-> <<>>, n |-> n]
StrObj(s) == [t |-> "String", s |-> s, n |-> 0]
NumObj(n) == [t |-> "Number", s |-> <<>>, n |-> n]

\* v == null (abstract equality: null or undefined)
IsNullish(v) == v.t \in {"undefined", "null"}

\* ToBoolean(v)
Truthy(v) ==
    CASE v.t = "string" -> v.s # <<>>
      [] v.t = "number" -> v.n # 0
      [] v.t \in {"String", "Number"} -> TRUE
      [] OTHER -> FALSE

\* v.constructor, for a value that is not null or undefined
Constructor(v) ==
    CASE v.t \in {"string", "String"} -> "String"
      [] v.t \in {"number", "Number"} -> "Number"

\* new type()
New(type) == IF type = "String" THEN StrObj(<<>>) ELSE NumObj(0)

Digit(n) ==
    CASE n = 0 -> "0" [] n = 1 -> "1" [] n = 2 -> "2" [] n = 3 -> "3"
      [] n = 4 -> "4" [] n = 5 -> "5" [] n = 6 -> "6" [] n = 7 -> "7"
      [] n = 8 -> "8" [] n = 9 -> "9"

\* ToString(v), for the values of the model (numbers are single digits)
JSToString(v) ==
    CASE v.t \in {"string", "String"} -> v.s
      [] v.t \in {"number", "Number"} -> <<Digit(v.n)>>
      [] v.t = "null" -> <<"n", "u", "l", "l">>
      [] OTHER -> <<"u", "n", "d", "e", "f", "i", "n", "e", "d">>

----------------------------------------------------------------------------
(* The transforms of the schemas *)

\* function identity (a) { return a; }
identity(a) == [val |-> a, logged |-> 0]

EntityText == [c \in {"&lt;", "&gt;", "&amp;"} |->
                 CASE c = "&lt;" -> "<" [] c = "&gt;" -> ">" [] OTHER -> "&"]

NotLetters == {"<", ">", "/", "&", "-", " ", "&lt;", "&gt;", "&amp;",
               "0", "1", "2", "3", "4", "5", "6", "7", "8", "9"}

\* the markup parser opens a tag at "<" followed by a letter or by "/"
OpensTag(s, i) ==
    /\ s[i] = "<"
    /\ i < Len(s)
    /\ (s[i + 1] = "/" \/ s[i + 1] \notin NotLetters)

\* positions of the ">" that close a tag opened at i
Closers(s, i) == {j \in (i + 1)..Len(s) : s[j] = ">"}

Least(S) == CHOOSE j \in S : \A k \in S : j <= k

RECURSIVE TextContent(_, _)
\* e.innerHTML = s; e.textContent, read from position i: tags are dropped
\* (a tag that is never closed swallows the rest), character references are
\* decoded, all other characters are text
TextContent(s, i) ==
    IF i > Len(s) THEN <<>>
    ELSE IF OpensTag(s, i)
         THEN IF Closers(s, i) = {} THEN <<>>
              ELSE TextContent(s, Least(Closers(s, i)) + 1)
    ELSE IF s[i] \in DOMAIN EntityText
         THEN <<EntityText[s[i]]>> \o TextContent(s, i + 1)
    ELSE <<s[i]>> \o TextContent(s, i + 1)

\* function cleanStr (s): the argument is converted to a string by the
\* innerHTML setter, the result is a primitive string
cleanStr(s) == [val |-> Str(TextContent(JSToString(s), 1)), logged |-> 0]

DateTokens == {"2020-01-01", "1970-01-01"}
Digits == {"0", "1", "2", "3", "4", "5", "6", "7", "8", "9"}

\* the timestamp of a day at midnight UTC plus ms milliseconds (one digit)
IsoString(day, ms) == <<day, "T", "00:00:00.00", ms, "Z">>

\* Date.parse: a date alone or a timestamp as toISOString writes it
ParsesAsDate(s) ==
    \/ Len(s) = 1 /\ s[1] \in DateTokens
    \/ /\ Len(s) = 5
       /\ s[1] \in DateTokens
       /\ s[4] \in Digits
       /\ s = IsoString(s[1], s[4])

\* new Date(value).toISOString() of a string (or of a String object, which
\* the Date constructor first converts to its primitive)
IsoOfString(s) == IF Len(s) = 1 THEN IsoString(s[1], "0") ELSE s

\* a variant whose catch neither logs nor keeps the value:
\* catch (ex) { return ""; }
dateTransformDropping(value) ==
    CASE value.t \in {"string", "String"} ->
           IF ParsesAsDate(value.s)
           THEN [val |-> Str(IsoOfString(value.s)), logged |-> 0]
           ELSE [val |-> Str(<<>>), logged |-> 0]
      [] value.t \in {"number", "Number"} ->
           [val |-> Str(IsoString("1970-01-01", Digit(value.n))), logged |-> 0]
      [] value.t = "null" ->
           [val |-> Str(IsoString("1970-01-01", "0")), logged |-> 0]
      [] OTHER -> [val |-> Str(<<>>), logged |-> 0]

\* schema.publishedDate.transform: the ISO timestamp; when toISOString
\* throws (invalid date), console.error is called and the value is returned
dateTransform(value) ==
    CASE value.t \in {"string", "String"} ->
           IF ParsesAsDate(value.s)
           THEN [val |-> Str(IsoOfString(value.s)), logged |-> 0]
           ELSE [val |-> value, logged |-> 1]
      [] value.t \in {"number", "Number"} ->
           [val |-> Str(IsoString("1970-01-01", Digit(value.n))), logged |-> 0]
      [] value.t = "null" ->
           [val |-> Str(IsoString("1970-01-01", "0")), logged |-> 0]
      [] OTHER -> [val |-> value, logged |-> 1]

\* (model.transform || identity)(value)
Transform(model, value) ==
    CASE model.transform = "cleanStr" -> cleanStr(value)
      [] model.transform = "date" -> dateTransform(value)
      [] OTHER -> identity(value)

----------------------------------------------------------------------------
(* The schemas.  A field descriptor is [name, type, required, transform];  *)
(* transform "none" is a descriptor without a transform.                   *)

Field(name, type, required, transform) ==
    [name |-> name, type |-> type, required |-> required, transform |-> transform]

\* the twelve descriptors, which differ between the blocks in the types of
\* mature and isbn, in the required flag of title, in the transform of
\* description and snippet and in the names of the two URL fields
SchemaOf(titleRequired, textTransform, matureType, isbnType, thumbnail, cover) ==
    << Field("title", "String", titleRequired, "none"),
       Field("subtitle", "String", FALSE, "none"),
       Field("description", "String", FALSE, textTransform),
       Field("snippet", "String", FALSE, textTransform),
       Field("publishedDate", "String", FALSE, "date"),
       Field("publisher", "String", FALSE, "none"),
       Field("mature", matureType, FALSE, "none"),
       Field("language", "String", FALSE, "none"),
       Field("isbn", isbnType, FALSE, "none"),
       Field("pageCount", "Number", FALSE, "none"),
       Field(thumbnail, "String", FALSE, "none"),
       Field(cover, "String", FALSE, "none") >>

schemaP1 == SchemaOf(TRUE, "none", "Number", "String", "thumbnailURL", "coverURL")
issueDetailsModelP2 ==
    SchemaOf(FALSE, "none", "String", "Number", "thumbnailURL", "coverURL")
schemaP3 == SchemaOf(TRUE, "none", "String", "Number", "thumbnailURL", "coverURL")
schemaP4 == SchemaOf(TRUE, "cleanStr", "Number", "String", "thumbnailUrl", "coverUrl")
schemaS1 == SchemaOf(TRUE, "none", "String", "String", "thumbnailURL", "coverURL")
issueDetailsModelS2 ==
    SchemaOf(FALSE, "none", "String", "Number", "thumbnailURL", "coverURL")

\* var issueRequired = ["title", "coverURL"]
issueRequired == {"title", "coverURL"}

AllBlocks == {"P1", "P2", "P3", "P4", "S1", "S2"}

Schemas ==
    [b \in AllBlocks |->
        CASE b = "P1" -> schemaP1
          [] b = "P2" -> issueDetailsModelP2
          [] b = "P3" -> schemaP3
          [] b = "P4" -> schemaP4
          [] b = "S1" -> schemaS1
          [] b = "S2" -> issueDetailsModelS2]

\* the schema of block b (schema, or issueDetailsModel in P2 and S2)
schema(b) == Schemas[b]

\* the constructor a block defines
ConstructorOf(b) == IF b \in {"P2", "S2"} THEN "ComicBookIssue" ELSE "Issue"

\* the blocks whose type check is guarded by details[model.name] != null
NullGuarded == {"P1", "P4"}

FieldNames(b) == {schema(b)[i].name : i \in 1..Len(schema(b))}

\* the position of a field in the schema of block b
IndexOf(b, name) == CHOOSE i \in 1..Len(schema(b)) : schema(b)[i].name = name

\* the fields a block requires: the descriptors flagged required (Issue) or
\* the list issueRequired (ComicBookIssue)
RequiredNames(b) ==
    IF ConstructorOf(b) = "ComicBookIssue" THEN issueRequired
    ELSE {schema(b)[i].name : i \in {j \in 1..Len(schema(b)) : schema(b)[j].required}}

----------------------------------------------------------------------------
(* Raw inputs.  details maps every key of the model to an entry: absent,   *)
(* an own property, or a property inherited from the prototype.            *)

AllKeys == {"title", "subtitle", "description", "snippet", "publishedDate",
            "publisher", "mature", "language", "isbn", "pageCount",
            "thumbnailURL", "coverURL", "thumbnailUrl", "coverUrl", "extra"}

Absent       == [p |-> "absent", val |-> Undefined]
Own(v)       == [p |-> "own", val |-> v]
Inherited(v) == [p |-> "inherited", val |-> v]

\* the keys of details that the doc comment of the constructor lists
\* (@param {string} details.title ... @param {string} details.coverURL)
DocumentedKeys ==
    {"title", "subtitle", "description", "snippet", "publishedDate",
     "publisher", "mature", "language", "isbn", "pageCount",
     "thumbnailURL", "coverURL"}

\* the type the doc comment of block b gives for a key: {number} or {string}
DocumentedType(b, k) ==
    IF \/ b \in {"P1", "P4"} /\ k \in {"mature", "pageCount"}
       \/ b = "S1" /\ k = "pageCount"
    THEN "Number"
    ELSE "String"

\* Object.prototype.hasOwnProperty.call(details, name)
hasOwnProperty(details, name) == details[name].p = "own"

\* details[name]: own and inherited properties are both read
Get(details, name) == details[name].val

----------------------------------------------------------------------------
(* The constructors *)

NoError == [kind |-> "none", field |-> "", type |-> ""]

\* a variant that defines the property with {value: value, writable: true}
definePropertyWritable(props, name, value) ==
    (name :> [value |-> value, writable |-> TRUE,
              enumerable |-> FALSE, configurable |-> FALSE]) @@ props

\* Object.defineProperty(props, name, {value: value}): the attributes that
\* the descriptor leaves out default to false
defineProperty(props, name, value) ==
    (name :> [value |-> value, writable |-> FALSE,
              enumerable |-> FALSE, configurable |-> FALSE]) @@ props

\* a variant whose presence test is the truth of the value:
\* if (details[name]) { type check } else if (model.required) throw
IssueCheckFalsyRequired(model, details) ==
    IF Truthy(Get(details, model.name))
    THEN IF Constructor(Get(details, model.name)) # model.type
         THEN "TypeMismatch"
         ELSE "ok"
    ELSE IF model.required THEN "MissingRequired" ELSE "ok"

\* the check of one field in Issue of blocks P1 and P4: the type check is
\* skipped for null and undefined
IssueCheck(model, details) ==
    IF hasOwnProperty(details, model.name)
    THEN IF /\ ~IsNullish(Get(details, model.name))
            /\ Constructor(Get(details, model.name)) # model.type
         THEN "TypeMismatch"
         ELSE "ok"
    ELSE IF model.required THEN "MissingRequired" ELSE "ok"

\* the check of one field in Issue of blocks P3 and S1: reading .constructor
\* of null or undefined throws the engine's TypeError
IssueCheckUnguarded(model, details) ==
    IF hasOwnProperty(details, model.name)
    THEN IF IsNullish(Get(details, model.name)) THEN "NullAccess"
         ELSE IF Constructor(Get(details, model.name)) # model.type
              THEN "TypeMismatch"
              ELSE "ok"
    ELSE IF model.required THEN "MissingRequired" ELSE "ok"

\* a variant whose presence test is (name in details), which inherited
\* entries pass
ComicBookIssueCheckIn(model, details) ==
    IF /\ details[model.name].p = "absent"
       /\ model.name \in issueRequired
    THEN "MissingRequired"
    ELSE "ok"

\* the check of one field in ComicBookIssue (blocks P2 and S2)
ComicBookIssueCheck(model, details) ==
    IF /\ hasOwnProperty(details, model.name) = FALSE
       /\ model.name \in issueRequired
    THEN "MissingRequired"
    ELSE "ok"

Check(b, model, details) ==
    CASE ConstructorOf(b) = "ComicBookIssue" -> ComicBookIssueCheck(model, details)
      [] b \in NullGuarded -> IssueCheck(model, details)
      [] OTHER -> IssueCheckUnguarded(model, details)

\* a variant that falls back only on null and undefined:
\* (model.transform || identity)(details[model.name] ?? new model.type())
StoredValueNullish(model, details) ==
    Transform(model, IF ~IsNullish(Get(details, model.name))
                     THEN Get(details, model.name)
                     ELSE New(model.type))

\* (model.transform || identity)(details[model.name] || new model.type())
StoredValue(model, details) ==
    Transform(model, IF Truthy(Get(details, model.name))
                     THEN Get(details, model.name)
                     ELSE New(model.type))

\* the state of a constructor call before its loop
\* (checked: the fields whose check has been run, in order)
Fresh == [threw |-> FALSE, error |-> NoError, props |-> <<>>,
          checked |-> <<>>, logged |-> 0]

\* a variant of the iteration that stores the field before it checks it
StepStoreFirst(b, details, model, st) ==
    LET checked == Check(b, model, details)
        stored == StoredValue(model, details)
    IN  IF checked # "ok"
        THEN [st EXCEPT !.threw = TRUE,
                        !.checked = Append(@, model.name),
                        !.props = defineProperty(@, model.name, stored.val),
                        !.error = [kind |-> checked, field |-> model.name,
                                   type |-> model.type]]
        ELSE [st EXCEPT !.checked = Append(@, model.name),
                        !.props = defineProperty(@, model.name, stored.val),
                        !.logged = @ + stored.logged]

\* one iteration of the loop over the schema: check the field, then
\* transform and store it; a throw leaves the loop
Step(b, details, model, st) ==
    LET checked == Check(b, model, details)
        stored == StoredValue(model, details)
    IN  IF checked # "ok"
        THEN [st EXCEPT !.threw = TRUE,
                        !.checked = Append(@, model.name),
                        !.error = [kind |-> checked, field |-> model.name,
                                   type |-> model.type]]
        ELSE [st EXCEPT !.checked = Append(@, model.name),
                        !.props = defineProperty(@, model.name, stored.val),
                        !.logged = @ + stored.logged]

RECURSIVE Loop(_, _, _, _)
\* for (var ndx = 0; ndx < schema.length; ndx++) { ... }
Loop(b, details, ndx, st) ==
    IF ndx > Len(schema(b)) \/ st.threw THEN st
    ELSE Loop(b, details, ndx + 1, Step(b, details, schema(b)[ndx], st))

\* a variant whose loop starts at the second field: for (var ndx = 1; ...)
IssueFromSecond(b, details) == Loop(b, details, 2, Fresh)

\* new Issue(details) or new ComicBookIssue(details) of block b
Issue(b, details) == Loop(b, details, 1, Fresh)

NoComponent == [exists |-> FALSE, props |-> <<>>]

\* a variant of the factory that catches the throw and returns the object
\* as far as it was built
createCatching(b, details) ==
    LET this == Issue(b, details)
    IN  [threw |-> this.threw, error |-> this.error,
         returned |-> [exists |-> TRUE, props |-> this.props],
         this |-> this]

\* the factory: function (details) { return new Issue(details); }
\* a throw of the constructor leaves the factory; this is the constructor's
\* own object, which only the constructor sees when it throws
create(b, details) ==
    LET this == Issue(b, details)
    IN  IF this.threw
        THEN [threw |-> TRUE, error |-> this.error, returned |-> NoComponent,
              this |-> this]
        ELSE [threw |-> FALSE, error |-> NoError,
              returned |-> [exists |-> TRUE, props |-> this.props],
              this |-> this]

----------------------------------------------------------------------------
(* The page: the script blocks of a file run in order, from the first one  *)
(* the page includes.                                                      *)

Files == {"part_000", "script.js"}

Blocks(f) == IF f = "part_000" THEN <<"P1", "P2", "P3", "P4">> ELSE <<"S1", "S2">>

\* block P2 registers with window.bmr = public, the others with
\* Object.defineProperty(window, "bmr", {value: public})
RegistersByAssignment(b) == b = "P2"

Unset == [set |-> FALSE, block |-> "none", writable |-> FALSE, configurable |-> FALSE]

\* a variant in which defineProperty registers the namespace with
\* {value: public, configurable: true}
RegisterConfigurable(b, w) ==
    IF RegistersByAssignment(b)
    THEN IF ~w.set
         THEN [bmr |-> [set |-> TRUE, block |-> b, writable |-> TRUE,
                        configurable |-> TRUE], threw |-> FALSE]
         ELSE IF w.writable
              THEN [bmr |-> [w EXCEPT !.block = b], threw |-> FALSE]
              ELSE [bmr |-> w, threw |-> FALSE]
    ELSE IF ~w.set
         THEN [bmr |-> [set |-> TRUE, block |-> b, writable |-> FALSE,
                        configurable |-> TRUE], threw |-> FALSE]
         ELSE IF w.configurable \/ w.writable
              THEN [bmr |-> [w EXCEPT !.block = b], threw |-> FALSE]
              ELSE [bmr |-> w, threw |-> TRUE]

\* the registration of block b: the new window.bmr, and whether it threw
Register(b, w) ==
    IF RegistersByAssignment(b)
    THEN IF ~w.set
         THEN [bmr |-> [set |-> TRUE, block |-> b, writable |-> TRUE,
                        configurable |-> TRUE], threw |-> FALSE]
         ELSE IF w.writable
              THEN [bmr |-> [w EXCEPT !.block = b], threw |-> FALSE]
              ELSE [bmr |-> w, threw |-> FALSE]
    ELSE IF ~w.set
         THEN [bmr |-> [set |-> TRUE, block |-> b, writable |-> FALSE,
                        configurable |-> FALSE], threw |-> FALSE]
         ELSE IF w.configurable \/ w.writable
              THEN [bmr |-> [w EXCEPT !.block = b], threw |-> FALSE]
              ELSE [bmr |-> w, threw |-> TRUE]

----------------------------------------------------------------------------
(* The component: render, and what a caller can try on props *)

\* the names defined in Issue.templates of a block ({} where render takes
\* no template)
TemplateNames(b) ==
    CASE b \in {"P1", "S1"} -> {"rating", "thumbnail", "mobile"}
      [] b = "P4" -> {"rating", "thumbnail", "details"}
      [] OTHER -> {}

\* the names that the doc comment of render lists as accepted
\* (@param{string} template - one of the following: ...)
DocumentedTemplates(b) ==
    CASE b \in {"P1", "P4"} -> {"mobile", "thumbnail", "rating"}
      [] b = "S1" -> {"mobile", "thumbnail"}
      [] OTHER -> {}

\* members the templates object inherits from Object.prototype
InheritedNames == {"toString", "constructor"}

\* one interpolation of a template: the place and the text put there
Part(el, value) == [el |-> el, text |-> JSToString(value)]

\* value == false (abstract equality) for the values of a record
LooselyFalse(value) ==
    CASE value.t \in {"string", "String"} -> value.s \in {<<>>, <<"0">>}
      [] value.t \in {"number", "Number"} -> value.n = 0
      [] OTHER -> FALSE

\* a === b for the values of a record: wrapper objects are equal only to
\* themselves, and every default value is a wrapper object of its own
StrictEquals(a, b) == a.t \in {"string", "number"} /\ a = b

Of(props, name) ==
    IF name \in DOMAIN props THEN props[name].value ELSE Undefined

\* Issue.templates.rating
ratingTemplate(b, props) ==
    IF b = "S1" THEN <<>>
    ELSE <<Part("label.for", Of(props, "isbn")), Part("input.id", Of(props, "isbn")),
           Part("input.name", Of(props, "isbn"))>>

\* Issue.templates.thumbnail
thumbnailTemplate(b, props) ==
    LET url == IF b = "P4" THEN "thumbnailUrl" ELSE "thumbnailURL"
    IN  <<Part("img.src", Of(props, url)), Part("img.alt", Of(props, "title"))>>
        \o (IF b = "S1" THEN <<>> ELSE <<Part("a.href", Of(props, url))>>)

\* the eight paragraphs of the details section, without the snippet
Paragraphs(props, names) ==
    [i \in 1..Len(names) |-> Part(names[i], Of(props, names[i]))]

\* Issue.templates.mobile
mobileTemplate(b, props) ==
    <<Part("title", Of(props, "title")), Part("subtitle", Of(props, "subtitle")),
      Part("img.src", Of(props, "coverURL")), Part("img.alt", Of(props, "title"))>>
    \o Paragraphs(props, <<"description", "snippet", "publishedDate", "publisher",
                           "mature", "language", "isbn", "pageCount">>)
    \o <<Part("a.href", Of(props, "coverURL"))>>

\* the image of the details template: the cover, else the thumbnail, else a
\* placeholder
image(cover, thumb) ==
    IF LooselyFalse(cover)
    THEN IF LooselyFalse(thumb) THEN Str(<<"a-placeholder-image-url">>) ELSE thumb
    ELSE cover

\* Issue.templates.details: the snippet paragraph is
\*   (props.snippet === props.description || "<p class=snippet>...</p>")
\* so that the text "true" is written when the two are equal
detailsTemplate(b, props) ==
    <<Part("title", Of(props, "title")), Part("subtitle", Of(props, "subtitle")),
      Part("img.src", image(Of(props, "coverUrl"), Of(props, "thumbnailUrl"))),
      Part("img.alt", Of(props, "title")),
      Part("a.href", image(Of(props, "coverUrl"), Of(props, "thumbnailUrl"))),
      Part("description", Of(props, "description")),
      IF StrictEquals(Of(props, "snippet"), Of(props, "description"))
      THEN Part("text", Str(<<"t", "r", "u", "e">>))
      ELSE Part("snippet", Of(props, "snippet"))>>
    \o Paragraphs(props, <<"publishedDate", "publisher", "mature", "language",
                           "isbn", "pageCount">>)

NoElement == [exists |-> FALSE, html |-> <<>>]
Element(html) == [exists |-> TRUE, html |-> html]

\* render(templateName) of the component of block b.  In the blocks with
\* templates, Issue.templates[templateName](props) runs inside try: a name
\* that is no function there throws and is reported as unknown template;
\* the inherited toString is a function and returns "[object Object]"; the
\* inherited constructor returns props, which innerHTML cannot convert to a
\* string (a TypeError outside the try).
render(b, props, templateName) ==
    CASE b \in {"P2"} ->
           [threw |-> FALSE, error |-> "none", el |-> Element(<<>>)]
      [] b \in {"P3", "S2"} ->
           [threw |-> FALSE, error |-> "none",
            el |-> Element(<<Part("title", Of(props, "title"))>>)]
      [] templateName \in TemplateNames(b) ->
           [threw |-> FALSE, error |-> "none",
            el |-> Element(CASE templateName = "rating" -> ratingTemplate(b, props)
                             [] templateName = "thumbnail" -> thumbnailTemplate(b, props)
                             [] templateName = "mobile" -> mobileTemplate(b, props)
                             [] templateName = "details" -> detailsTemplate(b, props))]
      [] templateName = "toString" ->
           [threw |-> FALSE, error |-> "none",
            el |-> Element(<<Part("text", Str(<<"[object Object]">>))>>)]
      [] templateName = "constructor" ->
           [threw |-> TRUE, error |-> "TypeError", el |-> NoElement]
      [] OTHER ->
           [threw |-> TRUE, error |-> "UnknownTemplate", el |-> NoElement]

\* props[name] = value: a property that is not writable keeps its value
\* (the assignment is ignored, or throws in strict code); props is
\* extensible, a new name becomes an ordinary property
assign(props, name, value) ==
    IF name \in DOMAIN props
    THEN IF props[name].writable
         THEN [props |-> [props EXCEPT ![name].value = value], done |-> TRUE]
         ELSE [props |-> props, done |-> FALSE]
    ELSE [props |-> (name :> [value |-> value, writable |-> TRUE,
                              enumerable |-> TRUE, configurable |-> TRUE]) @@ props,
          done |-> TRUE]

\* Object.defineProperty(props, name, {value: value}) on a property that
\* exists: rejected (TypeError) when the property is neither configurable
\* nor writable and the value is another one
redefine(props, name, value) ==
    IF props[name].configurable \/ props[name].writable
    THEN [props |-> [props EXCEPT ![name].value = value], done |-> TRUE]
    ELSE [props |-> props, done |-> props[name].value = value /\ value.t \in {"string", "number"}]

\* delete props[name]: refused for a property that is not configurable
delete(props, name) ==
    IF props[name].configurable
    THEN [props |-> [k \in DOMAIN props \ {name} |-> props[k]] @@ <<>>, done |-> TRUE]
    ELSE [props |-> props, done |-> FALSE]

----------------------------------------------------------------------------
(* The inputs of the calls *)

Text(c) == Str(<<c>>)
Markup == Str(<<"<", "b", ">", "H", "i", "<", "/", "b", ">">>)
Escaped == Str(<<"&lt;", "b", "&gt;", "H", "i">>)

\* a truthy value of the declared type
GoodValue(model) ==
    CASE model.type = "Number" -> Num(7)
      [] model.name = "publishedDate" -> Text("2020-01-01")
      [] model.name = "description" -> Markup
      [] model.name = "snippet" -> Str(<<"H", "i">>)
      [] OTHER -> Text("X")

EmptyInput == [k \in AllKeys |-> Absent] @@ <<>>

\* every field of the schema supplied as an own property of its type
FullInputs ==
    [b \in AllBlocks |->
        [k \in AllKeys |->
            IF k \in FieldNames(b) THEN Own(GoodValue(schema(b)[IndexOf(b, k)]))
            ELSE Absent] @@ <<>>] @@ <<>>

FullInput(b) == FullInputs[b]

\* the full input with a number in place of the cover URL, the last field
BadCoverInput(b) == (schema(b)[Len(schema(b))].name :> Own(Num(7))) @@ FullInput(b)

\* the base inputs of a call: nothing supplied, every field supplied, and
\* every field supplied with the last one of the wrong type
BaseInputs(b) == {EmptyInput, FullInput(b), BadCoverInput(b)}

\* the keys a raw input may deviate in: the schema's and one key the schema
\* does not have (in P4, the documented key coverURL)
DeviationKeys(b) == FieldNames(b) \cup {IF b = "P4" THEN "coverURL" ELSE "extra"}

CommonEntries ==
    {Absent, Own(Undefined), Own(Null), Own(Str(<<>>)), Own(Text("X")),
     Own(Num(0)), Own(Num(7)), Inherited(Text("X"))}

DeviationEntries(k) ==
    CommonEntries \cup
        (IF k \in {"description", "snippet"} THEN {Own(Markup), Own(Escaped)}
         ELSE {})

AllEntries == UNION {DeviationEntries(k) : k \in AllKeys}

DeviationSets(b, max) == {S \in SUBSET DeviationKeys(b) : Cardinality(S) <= max}

\* the raw input base with the entries of f in place of its own
Deviate(base, f) == f @@ base

----------------------------------------------------------------------------
(* The state machine *)

NoCall == [made |-> FALSE, block |-> "none", details |-> EmptyInput,
           threw |-> FALSE, error |-> NoError, returned |-> NoComponent,
           stored |-> {}, checked |-> <<>>, logged |-> 0]

NoHeld == [exists |-> FALSE, block |-> "none", props |-> <<>>, snap |-> <<>>]

NoOp == [kind |-> "none", name |-> "", threw |-> FALSE, error |-> "none",
         el |-> [exists |-> FALSE, html |-> <<>>]]

Init ==
    /\ file \in Files
    /\ first \in 1..Len(Blocks(file))
    /\ pc = first
    /\ bmr = Unset
    /\ defined = {}
    /\ call = NoCall
    /\ held = NoHeld
    /\ op = NoOp

\* the next script block runs: it registers its namespace and, unless the
\* registration threw, defines its constructor and its factory
RunBlock ==
    /\ pc <= Len(Blocks(file))
    /\ ~call.made
    /\ bmr' = Register(Blocks(file)[pc], bmr).bmr
    /\ defined' = IF Register(Blocks(file)[pc], bmr).threw THEN defined
                  ELSE defined \cup {Blocks(file)[pc]}
    /\ pc' = pc + 1
    /\ UNCHANGED <<file, first, call, held, op>>

\* the values of the properties of a props object
Values(props) == [k \in DOMAIN props |-> props[k].value] @@ <<>>

\* the application calls window.bmr.create(details); with keep, it keeps
\* the component the call returns.  call records the input, the outcome and
\* what the constructor had done when it ended.
Create(details, keep) ==
    LET result == create(bmr.block, details)
    IN  /\ bmr.set
        /\ call' = [made |-> TRUE, block |-> bmr.block, details |-> details,
                    threw |-> result.threw, error |-> result.error,
                    returned |-> result.returned,
                    stored |-> DOMAIN result.this.props,
                    checked |-> result.this.checked,
                    logged |-> result.this.logged]
        /\ held' = IF keep /\ ~result.threw
                   THEN [exists |-> TRUE, block |-> bmr.block,
                         props |-> result.returned.props,
                         snap |-> Values(result.returned.props)]
                   ELSE held
        /\ UNCHANGED <<file, first, pc, bmr, defined, op>>

\* the first call on the page, with any input of the bounded set
CreateOnce ==
    /\ ~call.made
    /\ bmr.set
    /\ \E base \in BaseInputs(bmr.block) :
          \E S \in DeviationSets(bmr.block, MaxDeviations) :
              \E f \in [S -> AllEntries] :
                  /\ \A k \in S : f[k] \in DeviationEntries(k)
                  /\ Create(Deviate(base, f), FALSE)

Next == RunBlock \/ CreateOnce

Spec == Init /\ [][Next]_vars

----------------------------------------------------------------------------
(* The life of a page: several calls, and operations on the component     *)
(* that the caller holds.                                                   *)

\* the required fields alone
MinimalInput(b) ==
    [k \in AllKeys |-> IF k \in RequiredNames(b) THEN Own(Text("X")) ELSE Absent] @@ <<>>

LifeInputs(b) ==
    {EmptyInput, MinimalInput(b), FullInput(b),
     Deviate(FullInput(b), "snippet" :> Own(Text("X")))}

TemplateArguments == {"mobile", "thumbnail", "rating", "details",
                      "toString", "constructor", "bogus"}

\* the value a caller tries to put in a field
AttemptValues == {Text("Z")}

\* a call of the factory; the caller keeps the first component it gets
CreateAgain ==
    /\ bmr.set
    /\ \E details \in LifeInputs(bmr.block) : Create(details, ~held.exists)

\* the caller assigns to a field of the record (strict code or not)
AssignField ==
    /\ held.exists
    /\ \E name \in DOMAIN held.props, value \in AttemptValues, strict \in BOOLEAN :
          /\ held' = [held EXCEPT !.props = assign(@, name, value).props]
          /\ op' = [kind |-> "assign", name |-> name,
                    threw |-> strict /\ ~assign(held.props, name, value).done,
                    error |-> IF strict /\ ~assign(held.props, name, value).done
                              THEN "TypeError" ELSE "none",
                    el |-> NoElement]
    /\ UNCHANGED <<file, first, pc, bmr, defined, call>>

\* the caller redefines a field of the record with Object.defineProperty
RedefineField ==
    /\ held.exists
    /\ \E name \in DOMAIN held.props, value \in AttemptValues :
          /\ held' = [held EXCEPT !.props = redefine(@, name, value).props]
          /\ op' = [kind |-> "redefine", name |-> name,
                    threw |-> ~redefine(held.props, name, value).done,
                    error |-> IF redefine(held.props, name, value).done
                              THEN "none" ELSE "TypeError",
                    el |-> NoElement]
    /\ UNCHANGED <<file, first, pc, bmr, defined, call>>

\* the caller deletes a field of the record (strict code or not)
DeleteField ==
    /\ held.exists
    /\ \E name \in DOMAIN held.props, strict \in BOOLEAN :
          /\ held' = [held EXCEPT !.props = delete(@, name).props]
          /\ op' = [kind |-> "delete", name |-> name,
                    threw |-> strict /\ ~delete(held.props, name).done,
                    error |-> IF strict /\ ~delete(held.props, name).done
                              THEN "TypeError" ELSE "none",
                    el |-> NoElement]
    /\ UNCHANGED <<file, first, pc, bmr, defined, call>>

\* the caller renders the component
Render ==
    /\ held.exists
    /\ \E templateName \in TemplateArguments :
          op' = [kind |-> "render", name |-> templateName,
                 threw |-> render(held.block, held.props, templateName).threw,
                 error |-> render(held.block, held.props, templateName).error,
                 el |-> render(held.block, held.props, templateName).el]
    /\ UNCHANGED <<file, first, pc, bmr, defined, call, held>>

LifeNext ==
    RunBlock \/ CreateAgain \/ AssignField \/ RedefineField \/ DeleteField \/ Render

LifeSpec == Init /\ [][LifeNext]_vars

----------------------------------------------------------------------------
(* The round trip: the caller keeps the component of the first call and    *)
(* calls the factory again with the values of its record.                  *)

\* the values of a record as a raw input: every field an own property
\* ({title: issue.props.title, ...}, or props itself passed as details)
RecordAsInput(props) ==
    [k \in AllKeys |-> IF k \in DOMAIN props THEN Own(props[k].value) ELSE Absent] @@ <<>>

\* the first call on the page, whose component the caller keeps
CreateKept ==
    /\ ~call.made
    /\ bmr.set
    /\ \E base \in BaseInputs(bmr.block) :
          \E S \in DeviationSets(bmr.block, MaxDeviations) :
              \E f \in [S -> AllEntries] :
                  /\ \A k \in S : f[k] \in DeviationEntries(k)
                  /\ Create(Deviate(base, f), TRUE)

\* the second call, with the values of the record that was kept
CreateFromRecord ==
    /\ held.exists
    /\ call.details # RecordAsInput(held.props)
    /\ Create(RecordAsInput(held.props), FALSE)

RoundNext == RunBlock \/ CreateKept \/ CreateFromRecord

RoundSpec == Init /\ [][RoundNext]_vars

----------------------------------------------------------------------------
(* Vocabulary of the claims, on the last call *)

\* the descriptor of a field of the block that was called
ModelOf(name) == schema(call.block)[IndexOf(call.block, name)]

\* the raw input has an own entry for name
IsOwn(name) == hasOwnProperty(call.details, name)

\* the raw value of name is null or undefined, or there is none
RawNullish(name) == IsNullish(Get(call.details, name))

\* the raw value of name has the constructor type the schema declares
RightType(name) ==
    /\ ~RawNullish(name)
    /\ Constructor(Get(call.details, name)) = ModelOf(name).type

\* the raw value of name is a non-null value of another type
WrongType(name) ==
    /\ ~RawNullish(name)
    /\ Constructor(Get(call.details, name)) # ModelOf(name).type

Names == FieldNames(call.block)
Required == RequiredNames(call.block)

\* the value stored for name in the record the call returned
StoredOf(name) == call.returned.props[name].value

\* v is the zero-value of type: empty text, or the number 0
IsZeroValue(v, type) ==
    IF type = "String" THEN v.t \in {"string", "String"} /\ v.s = <<>>
    ELSE v.t \in {"number", "Number"} /\ v.n = 0

\* the fields that come before name in the schema of the block called
Before(name) ==
    {schema(call.block)[i].name : i \in 1..(IndexOf(call.block, name) - 1)}

\* the fields whose check fails on the raw input
Violating == {name \in Names : Check(call.block, ModelOf(name), call.details) # "ok"}

\* the violating field that comes first in schema order
FirstViolating ==
    CHOOSE name \in Violating :
        \A other \in Violating : IndexOf(call.block, name) <= IndexOf(call.block, other)

\* a key of the raw input that the schema of the block does not have
ExtraKeys == AllKeys \ Names

----------------------------------------------------------------------------
(* The claims *)

\* C1: a raw input with an own entry for each required field, whose own
\* values all have the declared constructor type, is constructed without a
\* throw, and the props of the result has exactly the schema's field names,
\* whatever extra keys the input has.
C1_ValidInputSucceeds ==
    (/\ call.made
     /\ \A name \in Required : IsOwn(name)
     /\ \A name \in Names : IsOwn(name) => RightType(name))
    => /\ ~call.threw
       /\ call.returned.exists
       /\ DOMAIN call.returned.props = Names

C1_Witness ==
    /\ call.made
    /\ \A name \in Required : IsOwn(name)
    /\ \A name \in Names : IsOwn(name) => RightType(name)
    /\ \E k \in ExtraKeys : IsOwn(k)
    /\ call.returned.exists

\* C2: when the key of a required field is not an own key of the raw input,
\* the call throws the error "property <name> is required" for the first
\* such field and returns no component.
C2_MissingRequiredThrows ==
    (call.made /\ \E name \in Required : ~IsOwn(name))
    => /\ call.threw
       /\ call.error.kind = "MissingRequired"
       /\ call.error.field \in Required
       /\ ~IsOwn(call.error.field)
       /\ \A name \in Required \cap Before(call.error.field) : IsOwn(name)
       /\ ~call.returned.exists

C2_Witness ==
    /\ call.made
    /\ ConstructorOf(call.block) = "ComicBookIssue"
    /\ IsOwn("title")
    /\ call.details["coverURL"].p = "inherited"
    /\ call.threw
    /\ call.error.field = "coverURL"

\* C3 as claimed: a required field whose key is an own key holding a falsy
\* value makes the call fail with the missing-required error.
C3_FalsyRequiredThrows ==
    (call.made /\ \E name \in Required :
                     IsOwn(name) /\ ~Truthy(Get(call.details, name)))
    => call.threw /\ call.error.kind = "MissingRequired"

\* C3 amended: a required field whose key is an own key never raises the
\* missing-required error, whatever value it holds (empty string, null,
\* undefined included); the error is raised only for a key that is not own.
\* An own empty string raises no error at all for its field.
C3_OwnRequiredNeverMissing ==
    call.made =>
        \A name \in Required :
            IsOwn(name) =>
                /\ ~(call.threw /\ call.error.kind = "MissingRequired"
                                /\ call.error.field = name)
                /\ Get(call.details, name) = Str(<<>>)
                      => ~(call.threw /\ call.error.field = name)

C3_Witness ==
    /\ call.made
    /\ IsOwn("title")
    /\ ~Truthy(Get(call.details, "title"))
    /\ call.returned.exists
    /\ IsZeroValue(StoredOf("title"), "String")

\* C4 as claimed: an own non-null value of another type than the declared
\* one, in an input that has its required keys and no null own value, makes
\* the call fail with the type-mismatch error naming a wrong-typed field, in
\* every variant of the constructor.
C4_WrongTypeThrows ==
    (/\ call.made
     /\ \A name \in Required : IsOwn(name)
     /\ \A name \in Names : IsOwn(name) => ~RawNullish(name)
     /\ \E name \in Names : IsOwn(name) /\ WrongType(name))
    => /\ call.threw
       /\ call.error.kind = "TypeMismatch"
       /\ IsOwn(call.error.field)
       /\ WrongType(call.error.field)

\* C5 as claimed: an own entry of a non-required field holding null or
\* undefined does not make the call throw, and the field is stored as the
\* zero-value of its declared type.
C5_NullSkipsTypeCheck ==
    call.made =>
        \A name \in Names \ Required :
            (IsOwn(name) /\ RawNullish(name)) =>
                /\ ~(call.threw /\ call.error.field = name)
                /\ call.returned.exists =>
                       IsZeroValue(StoredOf(name), ModelOf(name).type)

\* C6: the call fails on the violating field that comes first in schema
\* order; when it throws, the fields before that one, and no others, have
\* been stored, and no field after it has been checked.
C6_FailFast ==
    call.made =>
        /\ call.threw <=> Violating # {}
        /\ call.threw =>
              /\ call.error.field = FirstViolating
              /\ call.stored = Before(call.error.field)
              /\ Len(call.checked) = IndexOf(call.block, call.error.field)
              /\ \A i \in 1..Len(call.checked) :
                     call.checked[i] = schema(call.block)[i].name

C6_Witness ==
    /\ call.made
    /\ call.threw
    /\ Cardinality(Violating) >= 2
    /\ call.stored # {}

\* C7 as claimed: every field of a record that was constructed holds a
\* value of the type the schema declares for it.
C7_StoredHasDeclaredType ==
    (call.made /\ call.returned.exists) =>
        \A name \in Names :
            /\ ~IsNullish(StoredOf(name))
            /\ Constructor(StoredOf(name)) = ModelOf(name).type

\* C8: the fields of a record that was constructed keep the values they
\* had at construction, whatever is later assigned, redefined, deleted,
\* rendered or created.
C8_RecordNeverChanges ==
    held.exists =>
        /\ DOMAIN held.props = DOMAIN held.snap
        /\ \A name \in DOMAIN held.snap : held.props[name].value = held.snap[name]

C8_Witness ==
    /\ held.exists
    /\ op.kind = "assign"
    /\ ~op.threw
    /\ call.made /\ call.returned.exists
    /\ call.returned.props # held.props

\* C9: a call that fails returns nothing; a record that is returned has all
\* the fields of the schema, never only those before a failing field.
C9_NoPartialRecord ==
    call.made =>
        /\ call.threw => ~call.returned.exists /\ ~held.exists
        /\ call.returned.exists => ~call.threw /\ call.stored = Names

C9_Witness ==
    /\ call.made
    /\ call.threw
    /\ call.stored # {}
    /\ ~call.returned.exists

\* C10: the value stored for a field is the transform of the raw value when
\* that is truthy, and the transform of the zero-value of the declared type
\* otherwise; a supplied 0 or "" is stored as the zero-value.
C10_FalsyCoalesce ==
    (call.made /\ call.returned.exists) =>
        \A name \in Names :
            /\ StoredOf(name) =
                  Transform(ModelOf(name),
                            IF Truthy(Get(call.details, name))
                            THEN Get(call.details, name)
                            ELSE New(ModelOf(name).type)).val
            /\ (IsOwn(name) /\ Get(call.details, name) \in {Num(0), Str(<<>>)})
                  => IsZeroValue(StoredOf(name), ModelOf(name).type)

C10_Witness ==
    /\ call.made
    /\ call.returned.exists
    /\ IsOwn("pageCount")
    /\ Get(call.details, "pageCount") = Num(0)
    /\ StoredOf("pageCount") = NumObj(0)
    /\ \E name \in Names : Truthy(Get(call.details, name))
                           /\ ModelOf(name).transform # "none"

\* C11 as claimed: when the values of a record that was constructed are fed
\* back as a raw input, the call succeeds and every field of the new record
\* equals the field of the first one.
C11_Idempotent ==
    (/\ held.exists
     /\ call.made
     /\ call.details = RecordAsInput(held.props))
    => /\ ~call.threw
       /\ call.returned.exists
       /\ Values(call.returned.props) = held.snap

\* the raw input supplies name (own or inherited) as a primitive string
SuppliesString(name) ==
    /\ call.details[name].p # "absent"
    /\ Get(call.details, name).t = "string"

\* C12: a publishedDate string that parses as a date is stored as its ISO
\* timestamp; one that does not parse raises no error for the field, and
\* when the record is constructed the failure has been logged once and the
\* string is stored as it was (an empty string as empty text).
C12_DateParsedOrKept ==
    (call.made /\ SuppliesString("publishedDate")) =>
        LET raw == Get(call.details, "publishedDate")
        IN  /\ ~(call.threw /\ call.error.field = "publishedDate")
            /\ call.returned.exists =>
                  IF ParsesAsDate(raw.s)
                  THEN /\ StoredOf("publishedDate") = Str(IsoOfString(raw.s))
                       /\ call.logged = 0
                  ELSE /\ StoredOf("publishedDate").s = raw.s
                       /\ Truthy(raw) => StoredOf("publishedDate") = raw
                       /\ call.logged = 1

C12_Witness ==
    /\ call.made
    /\ SuppliesString("publishedDate")
    /\ Get(call.details, "publishedDate") = Text("X")
    /\ call.returned.exists
    /\ StoredOf("publishedDate") = Text("X")
    /\ call.logged = 1

\* the text s contains a markup tag: a tag opens in it and is closed
HasTag(s) == \E i \in 1..Len(s) : OpensTag(s, i) /\ Closers(s, i) # {}

\* C13 as claimed: in every record that was constructed, description and
\* snippet hold the supplied text with the markup removed, and never
\* contain a markup tag.
C13_MarkupStripped ==
    (call.made /\ call.returned.exists) =>
        \A name \in {"description", "snippet"} :
            /\ ~HasTag(StoredOf(name).s)
            /\ (SuppliesString(name) /\ Truthy(Get(call.details, name)))
                  => StoredOf(name).s = TextContent(Get(call.details, name).s, 1)

\* C14 as claimed: a construction logs only when the raw input supplied a
\* publishedDate value that does not parse as a date; an input that
\* supplies no publishedDate logs nothing.
C14_LogsOnlyBadDate ==
    call.made =>
        /\ call.logged > 0 =>
              /\ call.details["publishedDate"].p # "absent"
              /\ ~IsNullish(Get(call.details, "publishedDate"))
              /\ ~(/\ Get(call.details, "publishedDate").t \in {"string", "String"}
                    /\ ParsesAsDate(Get(call.details, "publishedDate").s))
        /\ call.details["publishedDate"].p = "absent" => call.logged = 0

\* the fields that every schema declares with the same name and type
CommonFields ==
    {"title", "subtitle", "description", "snippet", "publishedDate",
     "publisher", "language", "pageCount"}

\* the raw input of the last call with what the variants declare
\* differently factored out: the fields of differing type are left out and
\* the fields that any variant requires are supplied
FactoredInput ==
    [k \in {"mature", "isbn"} |-> Absent]
    @@ [k \in {"title", "coverURL"} |-> Own(Text("X"))]
    @@ call.details

\* a == b for two stored values: a wrapper object equals its primitive
EqualByValue(a, b) == a.s = b.s /\ a.n = b.n /\ Constructor(a) = Constructor(b)

\* two outcomes of the factory agree: both throw the same kind of error
\* for the same field, or both return records equal in the common fields
Agree(r1, r2) ==
    IF r1.threw \/ r2.threw
    THEN r1.threw /\ r2.threw /\ r1.error.kind = r2.error.kind
                  /\ r1.error.field = r2.error.field
    ELSE \A name \in CommonFields :
            EqualByValue(r1.returned.props[name].value,
                         r2.returned.props[name].value)

\* C15 as claimed: on a raw input with the differences of the variants
\* factored out, the six variants all throw the same kind of error for the
\* same field or all succeed with equal field values.
C15_VariantsAgree ==
    call.made =>
        \A b1 \in AllBlocks, b2 \in AllBlocks :
            Agree(create(b1, FactoredInput), create(b2, FactoredInput))

\* C16 as claimed: render of a constructed component returns an element
\* and does not throw, for each template name that the doc comment of
\* render lists as accepted.
C16_DocumentedTemplatesRender ==
    (/\ held.exists
     /\ op.kind = "render"
     /\ op.name \in DocumentedTemplates(held.block))
    => ~op.threw /\ op.el.exists

\* C17 as claimed: every documented key that the raw input supplies as an
\* own, truthy value of the documented type is a field of the record that
\* was constructed, holding the supplied value after the field's transform.
C17_DocumentedKeysKept ==
    (call.made /\ call.returned.exists) =>
        \A k \in DocumentedKeys :
            (/\ IsOwn(k)
             /\ Truthy(Get(call.details, k))
             /\ Constructor(Get(call.details, k)) = DocumentedType(call.block, k))
            => /\ k \in DOMAIN call.returned.props
               /\ StoredOf(k) = Transform(ModelOf(k), Get(call.details, k)).val

\* C18 as claimed: in the variants with templates, render throws the
\* unknown-template error exactly for the names that are not defined in
\* Issue.templates, inherited names included.
C18_UnknownTemplateIff ==
    (/\ held.exists
     /\ op.kind = "render"
     /\ TemplateNames(held.block) # {})
    => ((op.threw /\ op.error = "UnknownTemplate")
            <=> op.name \notin TemplateNames(held.block))

\* the places that a rendered element has interpolations at
PlacesOf(el) == {el.html[i].el : i \in 1..Len(el.html)}

\* C19 as claimed: the element rendered from the details template has the
\* snippet paragraph exactly when the record's snippet differs from its
\* description, and has nothing in its place when they are equal.
C19_SnippetOnlyWhenDifferent ==
    (/\ held.exists
     /\ op.kind = "render"
     /\ op.name = "details"
     /\ "details" \in TemplateNames(held.block)
     /\ op.el.exists)
    => /\ "snippet" \in PlacesOf(op.el)
             <=> held.snap["snippet"] # held.snap["description"]
       /\ held.snap["snippet"] = held.snap["description"]
             => PlacesOf(op.el) \cap {"snippet", "text"} = {}

\* the block that the page ran first, and the blocks it has run after it
FirstBlock == Blocks(file)[first]
LaterBlocks == {Blocks(file)[i] : i \in (first + 1)..(pc - 1)}

\* what holds of a page on which the first registration is the only one:
\* window.bmr is the namespace of the first block, every later block has
\* replaced nothing, those whose registration throws have defined nothing,
\* and a call of window.bmr.create is a call of the first block's factory
FirstRegistrationStands ==
    /\ bmr.block = FirstBlock
    /\ \A b \in LaterBlocks :
          /\ Register(b, bmr).bmr = bmr
          /\ Register(b, bmr).threw => b \notin defined
    /\ call.made => call.block = FirstBlock

====
